---- MODULE Spec2Model ----
(***************************************************************************)
(* Argon2 core of the password-hashes repository: the memory-filling state *)
(* machine of argon2/src/instance.rs and the memory view of                *)
(* argon2/src/memory.rs.                                                   *)
(*                                                                         *)
(* Numbers that fit a machine word of the model checker are integers.      *)
(* The 32- and 64-bit quantities whose full width matters (pseudo_rand,    *)
(* the products of index_alpha, a wrapped subtraction, the length of the   *)
(* output buffer) are little-endian byte sequences, the layout             *)
(* to_le_bytes gives them.                                                 *)
(***************************************************************************)
EXTENDS Integers, Naturals, Sequences, FiniteSets, TLC

VARIABLES
    pc,        \* position of Instance::hash: "new", "seed", "fill", "finalize", "done"; "idle" outside a hash
    inst,      \* the Instance fields and the arguments of hash
    memory,    \* Memory.data: block index -> Block
    sched,     \* the loops of fill_memory_blocks(_par): pass r, slice s, lane l, seeding cursor
    workers,   \* one fill_segment activation per lane: its locals
    hist,      \* observation of the run: the accesses of each lane's last step, the starts
               \* and ends of the segments, the blocks written in the slice, and for every
               \* block the pass that wrote it last (-1: never)
    out,       \* the out buffer of hash and its Result
    call       \* a call of a pure function: its arguments and its result

vars == <<pc, inst, memory, sched, workers, hist, out, call>>

----------------------------------------------------------------------------
(* Program constants *)

SYNC_POINTS == 4
ADDRESSES_IN_BLOCK == 128
BLAKE2B_OUTBYTES == 64
MIN_OUTLEN == 4
BLOCK_SIZE == 1024

(* Bounds of the model *)

MaxLanes == 2
MaxMCost == 24
MaxPasses == 2
MaxH0 == 1

----------------------------------------------------------------------------
(* Fixed-width arithmetic on little-endian byte sequences *)

Pow256(k) == CASE k = 0 -> 1 [] k = 1 -> 256 [] k = 2 -> 65536 [] OTHER -> 16777216

\* n as a k-byte two's complement value, least significant byte first
\* (u32: k = 4, with the wrap of a negative n; u64/usize: k = 8).
to_le_bytes(n, k) ==
    [j \in 1..k |-> IF j <= 4 THEN (n \div Pow256(j - 1)) % 256
                    ELSE IF n < 0 THEN 255 ELSE 0]

U32(n) == to_le_bytes(n, 4)
U64(n) == to_le_bytes(n, 8)

\* `as u64` of a u32, `as u32` of a u64
WidenU64(w) == [j \in 1..8 |-> IF j <= Len(w) THEN w[j] ELSE 0]
TruncU32(w) == SubSeq(w, 1, 4)

\* w >> 32 of a u64
Shr32(w) == SubSeq(w, 5, 8)

\* a * b of two u64 that are both below 2^32 (as every product of
\* index_alpha is: the 64 bits hold it without a wrap)
MulU64(a, b) ==
    LET t0 == a[1] * b[1]
        t1 == a[1] * b[2] + a[2] * b[1] + t0 \div 256
        t2 == a[1] * b[3] + a[2] * b[2] + a[3] * b[1] + t1 \div 256
        t3 == a[1] * b[4] + a[2] * b[3] + a[3] * b[2] + a[4] * b[1] + t2 \div 256
        t4 == a[2] * b[4] + a[3] * b[3] + a[4] * b[2] + t3 \div 256
        t5 == a[3] * b[4] + a[4] * b[3] + t4 \div 256
        t6 == a[4] * b[4] + t5 \div 256
    IN  <<t0 % 256, t1 % 256, t2 % 256, t3 % 256,
          t4 % 256, t5 % 256, t6 % 256, t6 \div 256>>

\* a - b of two u32, wrapped
WrappingSub(a, b) ==
    LET t1 == a[1] - b[1]
        t2 == a[2] - b[2] + t1 \div 256
        t3 == a[3] - b[3] + t2 \div 256
        t4 == a[4] - b[4] + t3 \div 256
    IN  <<t1 % 256, t2 % 256, t3 % 256, t4 % 256>>

\* a + b of two u32: the wrapped sum, then the carry out
AddCarry(a, b) ==
    LET t1 == a[1] + b[1]
        t2 == a[2] + b[2] + t1 \div 256
        t3 == a[3] + b[3] + t2 \div 256
        t4 == a[4] + b[4] + t3 \div 256
    IN  <<t1 % 256, t2 % 256, t3 % 256, t4 % 256, t4 \div 256>>

WrappingAdd(a, b) == SubSeq(AddCarry(a, b), 1, 4)

AddOverflows(a, b) == AddCarry(a, b)[5] = 1

RECURSIVE LessFrom(_, _, _)
LessFrom(a, b, j) ==
    IF j = 0 THEN FALSE
    ELSE IF a[j] # b[j] THEN a[j] < b[j]
    ELSE LessFrom(a, b, j - 1)

\* a < b of two values of the same width
Less(a, b) == LessFrom(a, b, Len(a))

\* w % m of a u32 w, for a small m
ModSmall(w, m) ==
    ((((((w[4] % m) * 256 + w[3]) % m) * 256 + w[2]) % m) * 256 + w[1]) % m

----------------------------------------------------------------------------
(* memory.rs *)

\* segment_length_for_params with the minimum taken as 4 blocks per lane
segment_length_for_params_floor4(m_cost, lanes) ==
    LET memory_blocks == IF m_cost < SYNC_POINTS * lanes
                         THEN SYNC_POINTS * lanes
                         ELSE m_cost
    IN  memory_blocks \div (lanes * SYNC_POINTS)

\* Memory::segment_length_for_params
segment_length_for_params(m_cost, lanes) ==
    LET memory_blocks == IF m_cost < 2 * SYNC_POINTS * lanes
                         THEN 2 * SYNC_POINTS * lanes
                         ELSE m_cost
    IN  memory_blocks \div (lanes * SYNC_POINTS)

----------------------------------------------------------------------------
(* instance.rs: index_alpha *)

\* reference_area_size with the segment being filled left inside the area of
\* the other lanes in a pass >= 1
reference_area_size_whole_lane(self, position, same_lane) ==
    IF 0 = position.pass
    THEN IF position.slice = 0
         THEN position.index - 1
         ELSE IF same_lane
         THEN position.slice * self.segment_length + position.index - 1
         ELSE position.slice * self.segment_length
              - (IF position.index = 0 THEN 1 ELSE 0)
    ELSE IF same_lane
         THEN self.lane_length - self.segment_length + position.index - 1
         ELSE self.lane_length
              - (IF position.index = 0 THEN 1 ELSE 0)

\* reference_area_size with the previous block left inside the area of the
\* worker's own lane
reference_area_size_with_previous(self, position, same_lane) ==
    IF 0 = position.pass
    THEN IF position.slice = 0
         THEN position.index
         ELSE IF same_lane
         THEN position.slice * self.segment_length + position.index
         ELSE position.slice * self.segment_length
              - (IF position.index = 0 THEN 1 ELSE 0)
    ELSE IF same_lane
         THEN self.lane_length - self.segment_length + position.index
         ELSE self.lane_length - self.segment_length
              - (IF position.index = 0 THEN 1 ELSE 0)

\* reference_area_size as the integer the expression denotes; it is below 0
\* where the u32 subtraction position.index - 1 underflows
reference_area_size(self, position, same_lane) ==
    IF 0 = position.pass
    THEN IF position.slice = 0
         THEN position.index - 1
         ELSE IF same_lane
         THEN position.slice * self.segment_length + position.index - 1
         ELSE position.slice * self.segment_length
              - (IF position.index = 0 THEN 1 ELSE 0)
    ELSE IF same_lane
         THEN self.lane_length - self.segment_length + position.index - 1
         ELSE self.lane_length - self.segment_length
              - (IF position.index = 0 THEN 1 ELSE 0)

\* (relative_position * relative_position) >> 32, a u64 below 2^32
skew(pseudo_rand) ==
    LET r == WidenU64(pseudo_rand)
    IN  WidenU64(Shr32(MulU64(r, r)))

\* the product truncated to 32 bits without the shift
scaled_no_shift(area, pseudo_rand) ==
    TruncU32(MulU64(WidenU64(area), skew(pseudo_rand)))

\* ((reference_area_size as u64 * relative_position) >> 32) as u32
scaled(area, pseudo_rand) ==
    TruncU32(WidenU64(Shr32(MulU64(WidenU64(area), skew(pseudo_rand)))))

\* relative_position, wrapped as a build without overflow checks computes it
relative_position(area, pseudo_rand) ==
    WrappingSub(WrappingSub(area, U32(1)), scaled(area, pseudo_rand))

\* start_position taken at the slice being filled instead of the next one
start_position_own_slice(self, position) ==
    IF position.pass # 0
    THEN position.slice * self.segment_length
    ELSE 0

start_position(self, position) ==
    IF position.pass # 0
    THEN IF position.slice = SYNC_POINTS - 1
         THEN 0
         ELSE (position.slice + 1) * self.segment_length
    ELSE 0

\* index_alpha with the modulo applied to the relative position only
index_alpha_rel_mod(self, position, pseudo_rand, same_lane) ==
    LET area == U32(reference_area_size(self, position, same_lane))
        rel  == relative_position(area, pseudo_rand)
    IN  start_position(self, position) + ModSmall(rel, self.lane_length)

\* the value index_alpha returns where no operation overflows, and the value
\* a build without overflow checks returns where one does
index_alpha(self, position, pseudo_rand, same_lane) ==
    LET area == U32(reference_area_size(self, position, same_lane))
        rel  == relative_position(area, pseudo_rand)
    IN  ModSmall(WrappingAdd(U32(start_position(self, position)), rel),
                 self.lane_length)

\* the arithmetic of index_alpha on the reference area size n and the scaled
\* value: the relative position, and whether some u32 operation overflows on
\* the way (a build with overflow checks panics there)
index_alpha_arithmetic(self, position, n, scaled_area) ==
    [reference_area_size |-> n,
     relative_position   |-> WrappingSub(WrappingSub(U32(n), U32(1)), scaled_area),
     overflows           |->
         \/ n < 0
         \/ Less(U32(n), U32(1))
         \/ Less(WrappingSub(U32(n), U32(1)), scaled_area)
         \/ AddOverflows(U32(start_position(self, position)),
                         WrappingSub(WrappingSub(U32(n), U32(1)), scaled_area))]

\* the arithmetic of a call of index_alpha
index_alpha_steps(self, position, pseudo_rand, same_lane) ==
    index_alpha_arithmetic(
        self, position,
        reference_area_size(self, position, same_lane),
        scaled(U32(reference_area_size(self, position, same_lane)), pseudo_rand))

\* some u32 operation of index_alpha overflows
index_alpha_overflows(self, position, pseudo_rand, same_lane) ==
    index_alpha_steps(self, position, pseudo_rand, same_lane).overflows


----------------------------------------------------------------------------
(* The Block primitive and BLAKE2b, which the instance calls.  A Block is   *)
(* kept as a digest of its 128 words; BlockWord gives the words back.      *)

BlockSpace == 256
ZeroBlock == 0

RECURSIVE BitXor(_, _, _)
BitXor(a, b, n) ==
    IF n = 1 THEN 0
    ELSE ((a + b) % 2) + 2 * BitXor(a \div 2, b \div 2, n \div 2)

\* Block ^= Block
BlockXor(a, b) == BitXor(a, b, BlockSpace)

\* the permutation P of the compression G
Permute(R) ==
    LET t == (R * 5 + 1) % BlockSpace
    IN  (t \div 8) + (t % 8) * (BlockSpace \div 8)

\* Block::fill_block: dst = G(prev_block, ref_block), XORed into the value
\* dst had when with_xor
fill_block(dst, prev_block, ref_block, with_xor) ==
    LET R == BlockXor(prev_block, ref_block)
        Z == BlockXor(R, Permute(R))
    IN  IF with_xor THEN BlockXor(Z, dst) ELSE Z

WordMul == <<1, 3, 5, 37, 73, 7, 11, 13>>

\* block[k], a u64
BlockWord(b, k) == [j \in 1..8 |-> (b * WordMul[j] * (2 * k + 1)) % 256]

\* the Block whose first words are the given ones and whose other words are 0
RECURSIVE BlockOfFrom(_, _)
BlockOfFrom(words, j) ==
    IF j = 0 THEN 0
    ELSE (BlockOfFrom(words, j - 1) * 31 + words[j] * 7) % BlockSpace

BlockOf(words) == BlockOfFrom(words, Len(words))

\* Block::load of the 1024 bytes of a hash
BlockLoad(hash) ==
    (hash.msg[1] * 59 + hash.msg[2] * 101 + hash.msg[3] * 31 + 17) % BlockSpace

MAX_OUTLEN == <<255, 255, 255, 255, 0, 0, 0, 0>>

V0x10 == 16
V0x13 == 19

Algorithms == {"Argon2d", "Argon2i", "Argon2id"}

\* `self.alg as u64`
AlgId(alg) == CASE alg = "Argon2d" -> 0 [] alg = "Argon2i" -> 1 [] OTHER -> 2

----------------------------------------------------------------------------
(* instance.rs: blake2b_long, next_addresses, fill_segment *)

\* blake2b_long without the check against MAX_OUTLEN
blake2b_long_no_max(inputs, out_len) ==
    IF Less(out_len, U64(MIN_OUTLEN))
    THEN [err |-> "OutputTooLong", written |-> FALSE, hash |-> <<>>]
    ELSE [err |-> "none", written |-> TRUE,
          hash |-> [outlen_bytes |-> TruncU32(out_len), msg |-> inputs]]

\* blake2b_long with the check against MAX_OUTLEN made after the digest has
\* been written
blake2b_long_max_late(inputs, out_len) ==
    IF Less(out_len, U64(MIN_OUTLEN))
    THEN [err |-> "OutputTooLong", written |-> FALSE, hash |-> <<>>]
    ELSE [err |-> IF Less(MAX_OUTLEN, out_len) THEN "OutputTooLong" ELSE "none",
          written |-> TRUE,
          hash |-> [outlen_bytes |-> TruncU32(out_len), msg |-> inputs]]

\* blake2b_long on an out buffer of out_len bytes (a usize of 64 bits):
\* the Result and what the buffer then holds
blake2b_long(inputs, out_len) ==
    IF Less(out_len, U64(MIN_OUTLEN))
    THEN [err |-> "OutputTooLong", written |-> FALSE, hash |-> <<>>]
    ELSE IF Less(MAX_OUTLEN, out_len)
    THEN [err |-> "OutputTooLong", written |-> FALSE, hash |-> <<>>]
    ELSE [err |-> "none", written |-> TRUE,
          hash |-> [outlen_bytes |-> TruncU32(out_len), msg |-> inputs]]

\* next_addresses without the increment of the counter
next_addresses_no_increment(address_block, input_block, zero_block) ==
    LET a1 == fill_block(address_block, zero_block, BlockOf(input_block), FALSE)
        a2 == fill_block(a1, zero_block, a1, FALSE)
    IN  [address_block |-> a2, input_block |-> input_block]

next_addresses(address_block, input_block, zero_block) ==
    LET input1 == [input_block EXCEPT ![7] = @ + 1]
        a1     == fill_block(address_block, zero_block, BlockOf(input1), FALSE)
        a2     == fill_block(a1, zero_block, a1, FALSE)
    IN  [address_block |-> a2, input_block |-> input1]

\* data_independent_addressing with Argon2id independent up to slice 2
data_independent_addressing_three_slices(self, position) ==
    \/ self.alg = "Argon2i"
    \/ /\ self.alg = "Argon2id"
       /\ position.pass = 0
       /\ position.slice <= SYNC_POINTS \div 2

data_independent_addressing(self, position) ==
    \/ self.alg = "Argon2i"
    \/ /\ self.alg = "Argon2id"
       /\ position.pass = 0
       /\ position.slice < SYNC_POINTS \div 2

\* starting_index without the two seeded blocks
starting_index_zero(position) == 0

\* we have already generated the first two blocks
starting_index(position) ==
    IF position.pass = 0 /\ position.slice = 0 THEN 2 ELSE 0

\* offset of the current block when the loop starts
first_offset(self, position) ==
    position.lane * self.lane_length
    + position.slice * self.segment_length
    + starting_index(position)

\* prev_offset before the loop, without the wrap to the last block of the lane
prev_offset_at_start_no_wrap(self, curr_offset) == curr_offset - 1

\* prev_offset before the loop
prev_offset_at_start(self, curr_offset) ==
    IF 0 = curr_offset % self.lane_length
    THEN curr_offset + self.lane_length - 1  \* last block in this lane
    ELSE curr_offset - 1                     \* previous block

\* fill_segment up to its loop: the locals of the activation
fill_segment_begin(self, position) ==
    LET dia    == data_independent_addressing(self, position)
        input0 == IF dia
                  THEN <<position.pass, position.lane, position.slice,
                         self.memory_len, self.passes, AlgId(self.alg), 0>>
                  ELSE <<0, 0, 0, 0, 0, 0, 0>>
        first  == position.pass = 0 /\ position.slice = 0
        na     == IF first /\ dia
                  THEN next_addresses(ZeroBlock, input0, ZeroBlock)
                  ELSE [address_block |-> ZeroBlock, input_block |-> input0]
        curr_offset == first_offset(self, position)
    IN  [status        |-> "running",
         pass          |-> position.pass,
         slice         |-> position.slice,
         i             |-> starting_index(position),
         dia           |-> dia,
         input_block   |-> na.input_block,
         address_block |-> na.address_block,
         curr_offset   |-> curr_offset,
         prev_offset   |-> prev_offset_at_start(self, curr_offset)]

\* without_xor decided by the version alone
without_xor_version_only(self, pass) == self.version = V0x10

\* version 1.2.1 and earlier: overwrite, not XOR
without_xor(self, pass) == self.version = V0x10 \/ pass = 0

\* reference_lane taken from pseudo_rand in pass 0, slice 0 too
reference_lane_unforced(self, position, pseudo_rand) ==
    ModSmall(Shr32(pseudo_rand), self.lanes)

\* the lane of the reference block
reference_lane(self, position, pseudo_rand) ==
    IF position.pass = 0 /\ position.slice = 0
    THEN position.lane  \* can not reference other lanes yet
    ELSE ModSmall(Shr32(pseudo_rand), self.lanes)

\* 1.1 with the reset of prev_offset left out
rotate_prev_offset_never(self, curr_offset, prev_offset) == prev_offset

\* 1.1 Rotating prev_offset if needed
rotate_prev_offset(self, curr_offset, prev_offset) ==
    IF curr_offset % self.lane_length = 1 THEN curr_offset - 1 ELSE prev_offset

\* the refill of the address block placed one index late
needs_next_addresses_late(i) == i % ADDRESSES_IN_BLOCK = 1

\* i % ADDRESSES_IN_BLOCK == 0: the address block is used up
needs_next_addresses(i) == i % ADDRESSES_IN_BLOCK = 0

\* the word of the address block taken at index i
address_index(i) == i % ADDRESSES_IN_BLOCK

\* Memory::get_block and get_block_mut index the slice of blocks: an index
\* outside it panics
in_bounds(mem, idx) == idx \in DOMAIN mem

\* Memory::get_block: a copy of the block
get_block(mem, idx) == IF in_bounds(mem, idx) THEN mem[idx] ELSE ZeroBlock

\* one iteration of the loop of fill_segment for the lane's activation w on
\* the memory mem: the memory and the locals after it, and what it accessed
fill_segment_step(self, mem, lane, w) ==
    LET i    == w.i
        prev_offset == rotate_prev_offset(self, w.curr_offset, w.prev_offset)
        refill == w.dia /\ needs_next_addresses(i)
        na   == IF refill
                THEN next_addresses(w.address_block, w.input_block, ZeroBlock)
                ELSE [address_block |-> w.address_block, input_block |-> w.input_block]
        pseudo_rand == IF w.dia
                       THEN BlockWord(na.address_block, address_index(i))
                       ELSE BlockWord(get_block(mem, prev_offset), 0)
        position == [pass |-> w.pass, lane |-> lane, slice |-> w.slice, index |-> i]
        ref_lane == reference_lane(self, position, pseudo_rand)
        same_lane == ref_lane = lane
        ref_index == index_alpha(self, position, TruncU32(pseudo_rand), same_lane)
        ref_offset == self.lane_length * ref_lane + ref_index
        ref_block  == get_block(mem, ref_offset)
        prev_block == get_block(mem, prev_offset)
        with_xor   == ~without_xor(self, w.pass)
        panicked   == \/ ~in_bounds(mem, prev_offset)
                      \/ ~in_bounds(mem, ref_offset)
                      \/ ~in_bounds(mem, w.curr_offset)
        new        == fill_block(get_block(mem, w.curr_offset), prev_block, ref_block,
                                 with_xor)
    IN  [memory |-> IF panicked THEN mem ELSE [mem EXCEPT ![w.curr_offset] = new],
         worker |-> [w EXCEPT !.i = i + 1,
                              !.input_block = na.input_block,
                              !.address_block = na.address_block,
                              !.curr_offset = w.curr_offset + 1,
                              !.prev_offset = prev_offset + 1],
         obs    |-> [valid |-> TRUE, pass |-> w.pass, slice |-> w.slice,
                     index |-> i, dia |-> w.dia,
                     curr_offset |-> w.curr_offset, prev_offset |-> prev_offset,
                     ref_lane |-> ref_lane, ref_index |-> ref_index,
                     ref_offset |-> ref_offset,
                     pseudo_rand |-> pseudo_rand,
                     address_block |-> na.address_block,
                     address_index |-> address_index(i),
                     refilled |-> refill,
                     counter |-> na.input_block[7],
                     alpha |-> index_alpha_steps(self, position,
                                                 TruncU32(pseudo_rand), same_lane),
                     panicked |-> panicked,
                     old |-> get_block(mem, w.curr_offset), prev_block |-> prev_block,
                     ref_block |-> ref_block, new |-> new]]


----------------------------------------------------------------------------
(* instance.rs: fill_first_blocks, finalize, the sequential fill *)

Position(r, l, s) == [pass |-> r, lane |-> l, slice |-> s, index |-> 0]

Lanes(self) == 0 .. self.lanes - 1

\* fill_first_blocks: the first two blocks of every lane from the initial hash
fill_first_blocks(self, mem, blockhash) ==
    LET seed(l, i) == blake2b_long(<<blockhash, i, l>>, U64(BLOCK_SIZE))
        indices == {l * self.lane_length + i : l \in Lanes(self), i \in 0 .. 1}
    IN  [err     |-> IF \E l \in Lanes(self), i \in 0..1 : seed(l, i).err # "none"
                     THEN "OutputTooLong" ELSE "none",
         indices |-> indices,
         memory  |-> [idx \in DOMAIN mem |->
                        IF idx \in indices
                        THEN BlockLoad(seed(idx \div self.lane_length,
                                            idx % self.lane_length).hash)
                        ELSE mem[idx]]]

\* the loop over the lanes started at lane 0, whose block blockhash already holds
RECURSIVE last_blocks_xor_from_zero(_, _, _)
last_blocks_xor_from_zero(self, mem, l) ==
    IF l = 0 THEN BlockXor(get_block(mem, self.lane_length - 1),
                           get_block(mem, self.lane_length - 1))
    ELSE BlockXor(last_blocks_xor_from_zero(self, mem, l - 1),
                  get_block(mem, l * self.lane_length + (self.lane_length - 1)))

\* the XOR of the last block of the lanes 1 .. l into blockhash
RECURSIVE last_blocks_xor(_, _, _)
last_blocks_xor(self, mem, l) ==
    IF l = 0 THEN get_block(mem, self.lane_length - 1)
    ELSE BlockXor(last_blocks_xor(self, mem, l - 1),
                  get_block(mem, l * self.lane_length + (self.lane_length - 1)))

\* the indices finalize passes to get_block
last_block_indices(self) ==
    {self.lane_length - 1}
        \cup {l * self.lane_length + (self.lane_length - 1) : l \in 1 .. self.lanes - 1}

\* finalize: the Result, the out buffer, and the memory, which it reads by
\* copies of the blocks
finalize(self, mem, out_len) ==
    LET blockhash == last_blocks_xor(self, mem, self.lanes - 1)
        res == blake2b_long(<<blockhash>>, out_len)
    IN  [err |-> res.err, written |-> res.written, hash |-> res.hash,
         memory |-> mem, indices |-> last_block_indices(self)]

\* fill_segment run to its end on mem
RECURSIVE fill_segment(_, _, _, _)
fill_segment(self, mem, lane, w) ==
    IF w.i >= self.segment_length THEN mem
    ELSE LET st == fill_segment_step(self, mem, lane, w)
         IN  IF st.obs.panicked THEN st.memory
             ELSE fill_segment(self, st.memory, lane, st.worker)

\* the loops of the single-threaded fill_memory_blocks from (r, s, l) on
RECURSIVE fill_memory_blocks_from(_, _, _, _, _)
fill_memory_blocks_from(self, mem, r, s, l) ==
    IF r >= self.passes THEN mem
    ELSE IF s >= SYNC_POINTS THEN fill_memory_blocks_from(self, mem, r + 1, 0, 0)
    ELSE IF l >= self.lanes THEN fill_memory_blocks_from(self, mem, r, s + 1, 0)
    ELSE fill_memory_blocks_from(
             self,
             fill_segment(self, mem, l, fill_segment_begin(self, Position(r, l, s))),
             r, s, l + 1)

fill_memory_blocks(self, mem) == fill_memory_blocks_from(self, mem, 0, 0, 0)

----------------------------------------------------------------------------
(* The state machine of Instance::hash *)

MCosts == 0 .. MaxMCost
H0s == 0 .. MaxH0
\* what the caller's blocks hold before the hash: anything; here a block that
\* is not the zero block, so that an XOR into it shows
Garbage == {165}
Versions == {V0x10, V0x13}
\* The runs: every configuration of the fill with a tag of DefaultOutLen
\* bytes, and every tag length of OutLens on the smallest memory
DefaultOutLen == 32
OutLens ==
    {U64(3), U64(4), U64(DefaultOutLen), U64(65), MAX_OUTLEN, <<0, 0, 0, 0, 1, 0, 0, 0>>}

IdleWorker ==
    [status |-> "idle", pass |-> 0, slice |-> 0, i |-> 0, dia |-> FALSE,
     input_block |-> <<0, 0, 0, 0, 0, 0, 0>>, address_block |-> ZeroBlock,
     curr_offset |-> 0, prev_offset |-> 0]

NoObs == [valid |-> FALSE, panicked |-> FALSE]

Segments(self) == (0 .. self.passes - 1) \X (0 .. SYNC_POINTS - 1) \X Lanes(self)

NoCall == [fn |-> "none"]

\* the arguments of Instance::hash: the context, the algorithm, the initial
\* hash, the memory made for the context, and the out buffer
HashCalled(alg, version, t_cost, lanes, threads, m_cost, h0, g, out_len) ==
    LET segment_length == segment_length_for_params(m_cost, lanes)
        self == [version        |-> version,
                 passes         |-> t_cost,
                 lane_length    |-> segment_length * SYNC_POINTS,
                 lanes          |-> lanes,
                 threads        |-> threads,
                 alg            |-> alg,
                 segment_length |-> segment_length,
                 memory_len     |-> segment_length * SYNC_POINTS * lanes,
                 initial_hash   |-> h0,
                 garbage        |-> g]
    IN  /\ pc = "new"
        /\ inst = self
        /\ memory = [idx \in 0 .. self.memory_len - 1 |-> g]
        /\ sched = [r |-> 0, s |-> 0, l |-> 0, started |-> {}]
        /\ workers = [l \in Lanes(self) |-> IdleWorker]
        /\ hist = [last      |-> [l \in Lanes(self) |-> NoObs],
                   started   |-> [seg \in Segments(self) |-> 0],
                   finished  |-> [seg \in Segments(self) |-> 0],
                   written   |-> [l \in Lanes(self) |-> {}],
                   stamp     |-> [idx \in 0 .. self.memory_len - 1 |-> -1],
                   seeded    |-> {},
                   finalized |-> {}]
        /\ out = [len |-> out_len, result |-> "pending", written |-> FALSE,
                  tag |-> <<>>]
        /\ call = NoCall

Init ==
    \E alg \in Algorithms, version \in Versions, t_cost \in 1 .. MaxPasses,
       lanes \in 1 .. MaxLanes, threads \in 1 .. MaxLanes, m_cost \in MCosts,
       h0 \in H0s, g \in Garbage, out_len \in OutLens :
        /\ \/ out_len = U64(DefaultOutLen)
           \/ t_cost = 1 /\ lanes = 1 /\ threads = 1 /\ m_cost = 0 /\ h0 = 0
        /\ HashCalled(alg, version, t_cost, lanes, threads, m_cost, h0, g, out_len)

\* Instance::new
New ==
    /\ pc = "new"
    /\ \E self \in {[inst EXCEPT !.threads = IF @ > inst.lanes THEN inst.lanes ELSE @]} :
       \E fb \in {fill_first_blocks(self, memory, self.initial_hash)} :
           /\ inst' = self
           /\ memory' = fb.memory
           /\ hist' = [hist EXCEPT
                          !.stamp = [idx \in DOMAIN memory |->
                                        IF idx \in fb.indices THEN 0 ELSE -1],
                          !.seeded = fb.indices]
           /\ IF fb.err = "none"
              THEN pc' = "fill" /\ out' = out
              ELSE pc' = "done" /\ out' = [out EXCEPT !.result = fb.err]
    /\ UNCHANGED <<sched, workers, call>>

\* fill_memory_blocks takes the parallel path (a build with the feature
\* "parallel"; a build without it runs the single-threaded loop, as threads = 1
\* does here)
ParPath == inst.threads > 1

StartSegment(l) ==
    /\ workers' = [workers EXCEPT ![l] =
                      fill_segment_begin(inst, Position(sched.r, l, sched.s))]
    /\ sched' = [sched EXCEPT !.started = @ \cup {l}]
    /\ hist' = [hist EXCEPT !.started[<<sched.r, sched.s, l>>] = @ + 1]
    /\ UNCHANGED <<pc, inst, memory, out, call>>

\* the single-threaded loop calls fill_segment for its lane l
SeqCall ==
    /\ pc = "fill"
    /\ ~ParPath
    /\ sched.l < inst.lanes
    /\ sched.l \notin sched.started
    /\ StartSegment(sched.l)

\* the parallel iterator hands lane l of the slice to a thread
ParSpawn(l) ==
    /\ pc = "fill"
    /\ ParPath
    /\ l \notin sched.started
    /\ workers[l].status # "running"
    /\ StartSegment(l)

\* one iteration of the loop of fill_segment of lane l: it reads the previous
\* block and the reference block and writes the current block.  The three
\* accesses are one step: C2_WriteSets, C3_ReadsLaterPass and C4_ReadsFirstPass
\* show that no block an iteration reads or writes is written by another
\* running worker, so no finer interleaving is observable.
FillSegmentStep(l) ==
    /\ pc = "fill"
    /\ workers[l].status = "running"
    /\ workers[l].i < inst.segment_length
    /\ \E st \in {fill_segment_step(inst, memory, l, workers[l])} :
           /\ memory' = st.memory
           /\ IF st.obs.panicked
              THEN /\ pc' = "panicked"
                   /\ workers' = workers
                   /\ hist' = [hist EXCEPT !.last[l] = st.obs]
              ELSE /\ pc' = pc
                   /\ workers' = [workers EXCEPT ![l] = st.worker]
                   /\ hist' = [hist EXCEPT
                          !.last[l] = st.obs @@
                              [prev_stamp |-> hist.stamp[st.obs.prev_offset],
                               ref_stamp  |-> hist.stamp[st.obs.ref_offset]],
                          !.written[l] = @ \cup {st.obs.curr_offset},
                          !.stamp[st.obs.curr_offset] = st.obs.pass]
    /\ UNCHANGED <<inst, sched, out, call>>

\* fill_segment of lane l returns
FillSegmentReturn(l) ==
    /\ pc = "fill"
    /\ workers[l].status = "running"
    /\ workers[l].i >= inst.segment_length
    /\ workers' = [workers EXCEPT ![l].status = "done"]
    /\ hist' = [hist EXCEPT
                  !.finished[<<workers[l].pass, workers[l].slice, l>>] = @ + 1]
    /\ sched' = IF ParPath THEN sched ELSE [sched EXCEPT !.l = @ + 1]
    /\ UNCHANGED <<pc, inst, memory, out, call>>

\* the for_each returning as soon as one closure has run to its end
join_any(ws, started, lanes) ==
    \E l \in lanes : l \in started /\ ws[l].status = "done"

\* the parallel for_each of a slice has returned: every lane was handed out
\* and every closure has run to its end
join_complete(ws, started, lanes) ==
    /\ started = lanes
    /\ \A l \in lanes : ws[l].status = "done"

\* the loops nested the other way: the pass inside the slice
NextSlice_slice_outermost ==
    /\ IF sched.r < inst.passes - 1
       THEN /\ sched' = [r |-> sched.r + 1, s |-> sched.s, l |-> 0, started |-> {}]
            /\ pc' = pc
       ELSE IF sched.s < SYNC_POINTS - 1
       THEN /\ sched' = [r |-> 0, s |-> sched.s + 1, l |-> 0, started |-> {}]
            /\ pc' = pc
       ELSE /\ sched' = [sched EXCEPT !.started = {}]
            /\ pc' = "finalize"
    /\ hist' = [hist EXCEPT !.written = [l \in Lanes(inst) |-> {}]]
    /\ UNCHANGED <<inst, memory, workers, out, call>>

\* the loops over r and s move on, or end
NextSlice ==
    /\ IF sched.s < SYNC_POINTS - 1
       THEN /\ sched' = [r |-> sched.r, s |-> sched.s + 1, l |-> 0, started |-> {}]
            /\ pc' = pc
       ELSE IF sched.r < inst.passes - 1
       THEN /\ sched' = [r |-> sched.r + 1, s |-> 0, l |-> 0, started |-> {}]
            /\ pc' = pc
       ELSE /\ sched' = [sched EXCEPT !.started = {}]
            /\ pc' = "finalize"
    /\ hist' = [hist EXCEPT !.written = [l \in Lanes(inst) |-> {}]]
    /\ UNCHANGED <<inst, memory, workers, out, call>>

SeqNext ==
    /\ pc = "fill"
    /\ ~ParPath
    /\ sched.l >= inst.lanes
    /\ NextSlice

ParJoin ==
    /\ pc = "fill"
    /\ ParPath
    /\ join_complete(workers, sched.started, Lanes(inst))
    /\ NextSlice

\* Instance::finalize, and with it the return of Instance::hash
Finalize ==
    /\ pc = "finalize"
    /\ \E res \in {finalize(inst, memory, out.len)} :
           /\ out' = [out EXCEPT !.result = IF res.err = "none" THEN "ok" ELSE res.err,
                                 !.written = res.written,
                                 !.tag = res.hash]
           /\ memory' = res.memory
           /\ hist' = [hist EXCEPT !.finalized = res.indices]
    /\ pc' = "done"
    /\ UNCHANGED <<inst, sched, workers, call>>

Next ==
    \/ New
    \/ SeqCall
    \/ \E l \in Lanes(inst) : ParSpawn(l)
    \/ \E l \in Lanes(inst) : FillSegmentStep(l)
    \/ \E l \in Lanes(inst) : FillSegmentReturn(l)
    \/ SeqNext
    \/ ParJoin
    \/ Finalize

Spec == Init /\ [][Next]_vars

\* Hashes whose segments are longer than an address block: one lane of
\* LongMCost blocks, next to the smallest hash of two lanes on two threads
LongMCost == 520

InitLong ==
    \E alg \in Algorithms, version \in Versions :
      \E g \in Garbage :
        \/ HashCalled(alg, version, MaxPasses, 1, 1, LongMCost, 0, g,
                      U64(DefaultOutLen))
        \/ HashCalled(alg, version, 1, 2, 2, 0, 0, g, U64(DefaultOutLen))

SpecLong == InitLong /\ [][Next]_vars


----------------------------------------------------------------------------
(* Calls of the pure functions on their own *)

\* no hash is running
NoHash ==
    /\ pc = "idle"
    /\ inst = <<>>
    /\ memory = <<>>
    /\ sched = <<>>
    /\ workers = <<>>
    /\ hist = <<>>
    /\ out = <<>>

\* m_cost and lanes of the calls of segment_length_for_params: the small
\* ones, and large ones whose products stay below 2^31
SegLenMCosts == MCosts \cup {255, 65536, 16777216, 2147483647}
SegLenLanes == (1 .. MaxLanes) \cup {255, 16777215}

InitSegLen ==
    /\ NoHash
    /\ \E m_cost \in SegLenMCosts, lanes \in SegLenLanes :
          call = [fn |-> "segment_length_for_params", m_cost |-> m_cost,
                  lanes |-> lanes, returned |-> FALSE, result |-> 0]

CallSegmentLength ==
    /\ call.fn = "segment_length_for_params"
    /\ ~call.returned
    /\ call' = [call EXCEPT !.returned = TRUE,
                            !.result = segment_length_for_params(call.m_cost, call.lanes)]
    /\ UNCHANGED <<pc, inst, memory, sched, workers, hist, out>>

SpecSegLen == InitSegLen /\ [][CallSegmentLength]_vars

\* the segment lengths Memory is made with
SegmentLengths ==
    {segment_length_for_params(m_cost, lanes) : m_cost \in MCosts, lanes \in 1 .. MaxLanes}

\* pseudo_rand of the calls of index_alpha: both ends of the 32 bits and
\* values between, by their most significant byte
PseudoRands ==
    {<<low, low, low, high>> : low \in {0, 255}, high \in {0, 1, 64, 128, 181, 255}}

\* The calls of index_alpha are the ones fill_segment, its only caller, makes:
\* position.index runs from starting_index to the end of the segment, and in
\* pass 0, slice 0 the reference lane is the worker's own lane.
InitAlpha ==
    /\ NoHash
    /\ \E segment_length \in SegmentLengths, pass \in 0 .. MaxPasses - 1,
          slice \in 0 .. SYNC_POINTS - 1, pseudo_rand \in PseudoRands,
          same_lane \in BOOLEAN, overflow_checks \in BOOLEAN :
          \E index \in starting_index([pass |-> pass, slice |-> slice])
                           .. segment_length - 1 :
             /\ (pass = 0 /\ slice = 0) => same_lane
             /\ call = [fn |-> "index_alpha",
                        self |-> [segment_length |-> segment_length,
                                  lane_length |-> segment_length * SYNC_POINTS],
                        position |-> [pass |-> pass, lane |-> 0, slice |-> slice,
                                      index |-> index],
                        pseudo_rand |-> pseudo_rand,
                        same_lane |-> same_lane,
                        overflow_checks |-> overflow_checks,
                     returned |-> FALSE, panicked |-> FALSE, result |-> 0]

\* index_alpha runs: it returns, or panics where an operation overflows in a
\* build that checks for overflow
CallIndexAlpha ==
    /\ call.fn = "index_alpha"
    /\ ~call.returned /\ ~call.panicked
    /\ IF /\ call.overflow_checks
          /\ index_alpha_overflows(call.self, call.position, call.pseudo_rand,
                                   call.same_lane)
       THEN call' = [call EXCEPT !.panicked = TRUE]
       ELSE call' = [call EXCEPT !.returned = TRUE,
                                 !.result = index_alpha(call.self, call.position,
                                                        call.pseudo_rand, call.same_lane)]
    /\ UNCHANGED <<pc, inst, memory, sched, workers, hist, out>>

SpecAlpha == InitAlpha /\ [][CallIndexAlpha]_vars

\* blake2b_long step by step.  A chunk of the out buffer is the first len
\* bytes of a BLAKE2b digest of digest_size bytes; depth tells the digest:
\* depth 1 is the digest of LE32(out.len()) followed by the inputs, depth
\* k + 1 the digest of the 64 bytes of the digest of depth k.
MaxOutLen == 200
LongOutLens == (0 .. MaxOutLen) \cup {BLOCK_SIZE}
LongInputs == {<<7>>, <<1, 0, 1>>}

InitLongHash ==
    /\ NoHash
    /\ \E inputs \in LongInputs, out_len \in LongOutLens :
          call = [fn |-> "blake2b_long", inputs |-> inputs, out_len |-> out_len,
                  at |-> "entry", out |-> out_len, out_buffer |-> 0,
                  msg |-> <<>>, chunks |-> <<>>, result |-> "pending"]

\* the condition of the while loop, with >= for >
long_loop_continues_from_64(out_len) == out_len >= BLAKE2B_OUTBYTES

\* while out.len() > BLAKE2B_OUTBYTES
long_loop_continues(out_len) == out_len > BLAKE2B_OUTBYTES

\* out[..(BLAKE2B_OUTBYTES / 2)].copy_from_slice(..); out = &mut out[(BLAKE2B_OUTBYTES / 2)..]
long_take_half(c, depth) ==
    [c EXCEPT !.chunks = Append(@, [len |-> BLAKE2B_OUTBYTES \div 2,
                                    digest_size |-> BLAKE2B_OUTBYTES,
                                    depth |-> depth]),
              !.out = @ - BLAKE2B_OUTBYTES \div 2,
              !.out_buffer = depth]

\* blake2b_long from its entry: the checks, then the single digest of a short
\* output or the first half of a long one
CallBlake2bLong ==
    /\ call.fn = "blake2b_long" /\ call.at = "entry"
    /\ \E r \in {blake2b_long(call.inputs, U64(call.out_len))} :
          IF r.err # "none"
          THEN call' = [call EXCEPT !.at = "return", !.result = r.err]
          ELSE IF call.out_len <= BLAKE2B_OUTBYTES
          THEN call' = [call EXCEPT
                          !.at = "return", !.result = "ok",
                          !.msg = <<r.hash.outlen_bytes>> \o r.hash.msg,
                          !.out = 0,
                          !.chunks = <<[len |-> call.out_len,
                                        digest_size |-> call.out_len,
                                        depth |-> 1]>>]
          ELSE call' = [long_take_half(call, 1) EXCEPT
                          !.at = "loop",
                          !.msg = <<r.hash.outlen_bytes>> \o r.hash.msg]
    /\ UNCHANGED <<pc, inst, memory, sched, workers, hist, out>>

\* one iteration of the while loop
Blake2bLongLoop ==
    /\ call.fn = "blake2b_long" /\ call.at = "loop"
    /\ long_loop_continues(call.out)
    /\ call' = long_take_half(call, call.out_buffer + 1)
    /\ UNCHANGED <<pc, inst, memory, sched, workers, hist, out>>

\* the digest of out.len() bytes after the loop, and the return
Blake2bLongFinal ==
    /\ call.fn = "blake2b_long" /\ call.at = "loop"
    /\ ~long_loop_continues(call.out)
    /\ call' = [call EXCEPT
                  !.at = "return", !.result = "ok", !.out = 0,
                  !.chunks = Append(@, [len |-> call.out,
                                        digest_size |-> call.out,
                                        depth |-> call.out_buffer + 1])]
    /\ UNCHANGED <<pc, inst, memory, sched, workers, hist, out>>

NextLongHash == CallBlake2bLong \/ Blake2bLongLoop \/ Blake2bLongFinal

SpecLongHash == InitLongHash /\ [][NextLongHash]_vars


----------------------------------------------------------------------------
(* Properties *)

LaneOf(idx) == idx \div inst.lane_length
SliceOf(idx) == (idx % inst.lane_length) \div inst.segment_length
IndexOf(idx) == idx % inst.segment_length
Obs(l) == hist.last[l]

\* the memory the single-threaded loops leave, from the seeded blocks on
SequentialMemory ==
    fill_memory_blocks(
        inst,
        fill_first_blocks(inst, [idx \in DOMAIN memory |-> inst.garbage],
                          inst.initial_hash).memory)

\* C1: for fixed inputs the memory after fill_memory_blocks and the tag are
\* the same for every threads value in 1..lanes and every interleaving of the
\* lane workers of a slice: the parallel path leaves what the single-threaded
\* loops leave.
C1_Deterministic ==
    pc = "done" =>
        \E sequential \in {SequentialMemory} :
            /\ memory = sequential
            /\ out.result = "ok" => out.tag = finalize(inst, sequential, out.len).hash

\* a parallel hash of two passes has ended, its last steps referring across lanes
C1_Witness ==
    /\ pc = "done" /\ out.result = "ok"
    /\ inst.threads > 1 /\ inst.passes > 1
    /\ \E l \in Lanes(inst) : Obs(l).valid /\ Obs(l).ref_lane # l

\* the block indices lane l is to write in the slice of the scheduler, up to
\* the index upto of the segment
SegmentPrefix(l, upto) ==
    LET first == IF sched.r = 0 /\ sched.s = 0 THEN 2 ELSE 0
    IN  {l * inst.lane_length + sched.s * inst.segment_length + i : i \in first .. upto - 1}

\* C2: in each (pass, slice) fill_segment of lane l writes exactly the blocks
\* l*lane_length + slice*segment_length + i, i from starting_index (2 in pass
\* 0 slice 0, else 0) up to segment_length, and no two lanes write the same
\* block in the slice.
C2_WriteSets ==
    pc = "fill" =>
        \A l \in Lanes(inst) :
            /\ l \notin sched.started => hist.written[l] = {}
            /\ l \in sched.started =>
                  hist.written[l] = SegmentPrefix(l, workers[l].i)
            /\ l \in sched.started /\ workers[l].status = "done" =>
                  hist.written[l] = SegmentPrefix(l, inst.segment_length)
            /\ \A l2 \in Lanes(inst) \ {l} : hist.written[l] \cap hist.written[l2] = {}

\* every lane of a hash with several lanes has filled its segment of pass 0, slice 0
C2_Witness ==
    /\ pc = "fill" /\ sched.r = 0 /\ sched.s = 0 /\ inst.lanes > 1
    /\ \A l \in Lanes(inst) :
          /\ l \in sched.started /\ workers[l].status = "done"
          /\ Cardinality(hist.written[l]) = inst.segment_length - 2

\* the block idx, whose last writer was pass stamp when lane l read it in the
\* step o of a pass >= 1, is one the step may read
ReadLaterPass(l, o, idx, stamp) ==
    \/ SliceOf(idx) < o.slice /\ stamp = o.pass
    \/ SliceOf(idx) > o.slice /\ stamp = o.pass - 1
    \/ /\ LaneOf(idx) = l /\ SliceOf(idx) = o.slice /\ IndexOf(idx) < o.index
       /\ stamp = o.pass

\* C3: in a pass r >= 1, slice s, the previous block and the reference block a
\* lane worker reads lie in a slice < s rewritten in this pass, in a slice > s
\* still holding the value of pass r - 1, or in the written prefix of the
\* worker's own segment; none is a block of slice s of another lane.
C3_ReadsLaterPass ==
    \A l \in Lanes(inst) :
        Obs(l).valid /\ Obs(l).pass >= 1 =>
            /\ ReadLaterPass(l, Obs(l), Obs(l).prev_offset, Obs(l).prev_stamp)
            /\ ReadLaterPass(l, Obs(l), Obs(l).ref_offset, Obs(l).ref_stamp)
            /\ ~(SliceOf(Obs(l).ref_offset) = Obs(l).slice /\ LaneOf(Obs(l).ref_offset) # l)
            /\ ~(SliceOf(Obs(l).prev_offset) = Obs(l).slice /\ LaneOf(Obs(l).prev_offset) # l)

\* in a pass >= 1 a worker has read a block of another lane whose worker is
\* running in the same slice
C3_Witness ==
    \E l \in Lanes(inst) :
        /\ pc = "fill" /\ Obs(l).valid /\ Obs(l).pass >= 1
        /\ workers[l].status = "running" /\ workers[l].pass = Obs(l).pass
        /\ Obs(l).ref_lane # l
        /\ workers[Obs(l).ref_lane].status = "running"
        /\ workers[Obs(l).ref_lane].slice = Obs(l).slice
        /\ workers[Obs(l).ref_lane].i > 0

\* the block idx, with the stamp it had when lane l read it in the step o of
\* pass 0, is one the step may read
ReadFirstPass(l, o, idx, stamp) ==
    /\ stamp >= 0
    /\ \/ SliceOf(idx) < o.slice
       \/ LaneOf(idx) = l /\ SliceOf(idx) = o.slice /\ IndexOf(idx) < o.index

\* C4: in pass 0, slice s, the previous block and the reference block read at
\* index i lie in a slice < s of some lane or at an index < i of the worker's
\* own segment, so they have been written and no other worker is writing
\* them; in pass 0, slice 0 the reference lane is the worker's own lane.
C4_ReadsFirstPass ==
    \A l \in Lanes(inst) :
        Obs(l).valid /\ Obs(l).pass = 0 =>
            /\ ReadFirstPass(l, Obs(l), Obs(l).prev_offset, Obs(l).prev_stamp)
            /\ ReadFirstPass(l, Obs(l), Obs(l).ref_offset, Obs(l).ref_stamp)
            /\ Obs(l).slice = 0 => Obs(l).ref_lane = l

\* in pass 0 a worker has read a block of another lane while that lane's
\* worker is running in the same slice
C4_Witness ==
    \E l \in Lanes(inst) :
        /\ pc = "fill" /\ Obs(l).valid /\ Obs(l).pass = 0 /\ Obs(l).slice >= 1
        /\ workers[l].status = "running" /\ workers[l].pass = 0
        /\ Obs(l).ref_lane # l
        /\ workers[Obs(l).ref_lane].status = "running"
        /\ workers[Obs(l).ref_lane].slice = Obs(l).slice
        /\ workers[Obs(l).ref_lane].i > 0

\* the segments of the (pass, slice) that the loops run just before that of seg
SegmentsBefore(seg) ==
    IF seg[2] > 0 THEN {<<seg[1], seg[2] - 1, l>> : l \in Lanes(inst)}
    ELSE IF seg[1] > 0 THEN {<<seg[1] - 1, SYNC_POINTS - 1, l>> : l \in Lanes(inst)}
    ELSE {}

\* C5: in the parallel path no lane's fill_segment of a slice (or of slice 0
\* of the next pass) has started unless the fill_segment of every lane for
\* every earlier (pass, slice) has finished.
C5_Barrier ==
    pc = "fill" /\ ParPath =>
        \A seg \in DOMAIN hist.started :
            hist.started[seg] > 0 =>
                \A before \in SegmentsBefore(seg) : hist.finished[before] >= 1

\* in the parallel path one lane runs its segment of a later slice while
\* another has not been handed its segment of that slice yet
C5_Witness ==
    /\ pc = "fill" /\ ParPath /\ sched.s >= 1
    /\ \E l \in Lanes(inst) : workers[l].status = "running"
    /\ \E l \in Lanes(inst) : l \notin sched.started

\* C6: segment_length_for_params(m_cost, lanes) * lanes * 4 is
\* max(m_cost, 8*lanes) rounded down to a multiple of 4*lanes, and the
\* segment length is at least 2.
C6_Rounding ==
    call.fn = "segment_length_for_params" /\ call.returned =>
        LET most == IF call.m_cost > 8 * call.lanes THEN call.m_cost ELSE 8 * call.lanes
        IN  /\ call.result * call.lanes * 4 = most - (most % (4 * call.lanes))
            /\ call.result >= 2

\* a call whose m_cost is above the floor and no multiple of 4*lanes has returned
C6_Witness ==
    /\ call.fn = "segment_length_for_params" /\ call.returned
    /\ call.m_cost > 8 * call.lanes
    /\ call.m_cost % (4 * call.lanes) # 0
    /\ call.result > 2

\* the call of index_alpha returned an index inside the lane, and in pass 0,
\* slice 0 one below position.index
AlphaInBounds ==
    /\ call.returned
    /\ call.result < call.self.lane_length
    /\ call.position.pass = 0 /\ call.position.slice = 0 =>
          call.result < call.position.index

AlphaEnded == call.fn = "index_alpha" /\ (call.returned \/ call.panicked)

\* C7: for all inputs (position, pseudo_rand, same_lane) index_alpha returns
\* a value < lane_length, and for pass 0, slice 0 a value < position.index,
\* in a build with overflow checks as in one without.
C7_AlphaBounds == AlphaEnded => AlphaInBounds

\* a call in pass 0, slice 0 has returned the largest index it may: index - 2
C7_Witness ==
    /\ call.fn = "index_alpha" /\ call.returned
    /\ call.position.pass = 0 /\ call.position.slice = 0
    /\ call.position.index >= 3
    /\ call.result = call.position.index - 2

\* G(prev_block, ref_block) of the step o
Compressed(o) == fill_block(ZeroBlock, o.prev_block, o.ref_block, FALSE)

\* C8: fill_segment XORs the new block into the previous value of the block
\* iff version = 0x13 and pass >= 1; with version 0x10, and in pass 0 whatever
\* the version, the block is overwritten.
C8_VersionXor ==
    \A l \in Lanes(inst) :
        Obs(l).valid =>
            Obs(l).new = IF inst.version = 19 /\ Obs(l).pass >= 1
                         THEN BlockXor(Compressed(Obs(l)), Obs(l).old)
                         ELSE Compressed(Obs(l))

\* a step of a pass >= 1 with version 0x13 has XORed into a block that was not zero
C8_Witness ==
    \E l \in Lanes(inst) :
        /\ Obs(l).valid /\ inst.version = 19 /\ Obs(l).pass >= 1
        /\ Obs(l).old # ZeroBlock
        /\ Obs(l).new # Compressed(Obs(l))

\* C9: the pseudo-random value of a step comes from the address block iff alg
\* is Argon2i, or Argon2id with pass 0 and slice 0 or 1; otherwise it is word
\* 0 of the previous block.
C9_Addressing ==
    \A l \in Lanes(inst) :
        Obs(l).valid =>
            LET independent ==
                    \/ inst.alg = "Argon2i"
                    \/ inst.alg = "Argon2id" /\ Obs(l).pass = 0 /\ Obs(l).slice \in {0, 1}
            IN  /\ Obs(l).dia = independent
                /\ Obs(l).pseudo_rand =
                      IF independent
                      THEN BlockWord(Obs(l).address_block, Obs(l).index % 128)
                      ELSE BlockWord(Obs(l).prev_block, 0)

\* Argon2id has gone over to the previous block's word in slice 2 of pass 0
C9_Witness ==
    \E l \in Lanes(inst) :
        /\ Obs(l).valid /\ inst.alg = "Argon2id"
        /\ Obs(l).pass = 0 /\ Obs(l).slice = 2
        /\ Obs(l).pseudo_rand = BlockWord(Obs(l).prev_block, 0)
        /\ Obs(l).pseudo_rand # BlockWord(Obs(l).address_block, Obs(l).index % 128)

\* C10: hash fails with OutputTooLong when the output length is below 4 or
\* above 2^32 - 1, and returns ok for every length between.
C10_OutputLength ==
    pc = "done" =>
        LET below == out.len[1] < 4 /\ \A j \in 2 .. 8 : out.len[j] = 0
            above == \E j \in 5 .. 8 : out.len[j] # 0
        IN  out.result = IF below \/ above THEN "OutputTooLong" ELSE "ok"

\* a hash into a buffer of 2^32 bytes has failed
C10_Witness ==
    /\ pc = "done"
    /\ out.len = <<0, 0, 0, 0, 1, 0, 0, 0>>
    /\ out.result = "OutputTooLong"


\* bytes of the chunks 1 .. n
RECURSIVE ChunkBytes(_, _)
ChunkBytes(chunks, n) ==
    IF n = 0 THEN 0 ELSE ChunkBytes(chunks, n - 1) + chunks[n].len

\* C11: for an out buffer of more than 64 bytes blake2b_long ends having
\* written exactly out_len bytes: 32 bytes of V1, 32 bytes of each further V_k
\* taken while more than 64 bytes remained, then a last digest of the r bytes
\* that remain, 1 <= r <= 64, of the last V; for a buffer of at most 64 bytes
\* (and at least MIN_OUTLEN) it is one digest of out_len bytes of
\* LE32(out_len) followed by the inputs.
C11_Chunks ==
    call.fn = "blake2b_long" /\ call.at = "return" /\ call.result = "ok" =>
        LET n == Len(call.chunks)
            last == call.chunks[n]
        IN  /\ ChunkBytes(call.chunks, n) = call.out_len
            /\ call.msg = <<U32(call.out_len)>> \o call.inputs
            /\ \A k \in 1 .. n : call.chunks[k].depth = k
            /\ IF call.out_len <= 64
               THEN n = 1 /\ last.len = call.out_len /\ last.digest_size = call.out_len
               ELSE /\ n >= 2
                    /\ \A k \in 1 .. n - 1 :
                          /\ call.chunks[k].len = 32
                          /\ call.chunks[k].digest_size = 64
                          /\ k >= 2 => call.out_len - ChunkBytes(call.chunks, k - 1) > 64
                    /\ last.len = call.out_len - 32 * (n - 1)
                    /\ last.digest_size = last.len
                    /\ last.len >= 1 /\ last.len <= 64

\* a buffer of 129 bytes has been filled: the halves of V1, V2 and V3, the
\* loop ending with 33 bytes left, and the 33 bytes of the last digest
C11_Witness ==
    /\ call.fn = "blake2b_long" /\ call.at = "return" /\ call.result = "ok"
    /\ call.out_len = 129
    /\ Len(call.chunks) = 4
    /\ call.chunks[4].len = 33


\* the step of lane l is one of a data-independent segment
Independent(o) == o.valid /\ o.dia

\* C12 as stated: a data-independent segment consumes the words of the
\* address block in order from word 0 on, so that in pass 0, slice 0 the word
\* consumed at index 2 is word 0.
C12_FromWordZero ==
    \A l \in Lanes(inst) :
        Independent(Obs(l)) =>
            Obs(l).address_index =
                (Obs(l).index - starting_index(Obs(l))) % ADDRESSES_IN_BLOCK

\* C12, amended: in a data-independent segment the step at index i consumes
\* word i mod 128 of the address block, the indices and with them the words
\* following one another in order, and next_addresses is called in the loop
\* exactly at the indices that are multiples of 128; in pass 0, slice 0 the
\* block of the up-front call is the one in use and the first word consumed,
\* at index 2, is word 2.
C12_WordsInOrder ==
    [][\A l \in Lanes(inst) :
          (hist'.last[l] # hist.last[l] /\ Independent(hist'.last[l])) =>
              LET o == hist.last[l]
                  n == hist'.last[l]
                  same == o.valid /\ o.pass = n.pass /\ o.slice = n.slice
              IN  /\ n.address_index = n.index % ADDRESSES_IN_BLOCK
                  /\ n.refilled <=> (n.index % ADDRESSES_IN_BLOCK = 0)
                  /\ same => /\ n.index = o.index + 1
                             /\ n.address_index =
                                   (o.address_index + 1) % ADDRESSES_IN_BLOCK
                  /\ ~same => n.index = starting_index(n)
                  /\ (~same /\ n.pass = 0 /\ n.slice = 0) =>
                        /\ n.address_index = 2
                        /\ ~n.refilled
                        /\ n.counter = 1]_vars

\* the first segment of a data-independent hash has used up the block of the
\* up-front call and taken word 0 of the next one at index 128
C12_Witness ==
    \E l \in Lanes(inst) :
        /\ Independent(Obs(l))
        /\ Obs(l).pass = 0 /\ Obs(l).slice = 0
        /\ Obs(l).index = ADDRESSES_IN_BLOCK
        /\ Obs(l).refilled /\ Obs(l).address_index = 0

\* C13: at every iteration of fill_segment the previous block read is the
\* cyclic predecessor of the current block in its lane: curr_offset - 1, or
\* curr_offset + lane_length - 1 where curr_offset is the first block of the
\* lane, which happens only at index 0 of slice 0 in a pass >= 1; one step
\* later, at curr_offset mod lane_length = 1, it is curr_offset - 1 again.
C13_PrevOffset ==
    \A l \in Lanes(inst) :
        Obs(l).valid =>
            LET o == Obs(l)
                first == o.curr_offset % inst.lane_length = 0
            IN  /\ o.prev_offset = IF first
                                   THEN o.curr_offset + inst.lane_length - 1
                                   ELSE o.curr_offset - 1
                /\ LaneOf(o.prev_offset) = LaneOf(o.curr_offset)
                /\ first => o.slice = 0 /\ o.index = 0 /\ o.pass >= 1
                /\ (o.slice = 0 /\ o.index = 0) => first

\* the step after a wrap in the last lane: the local prev_offset had left the
\* lane and the block read is curr_offset - 1
C13_Witness ==
    \E l \in Lanes(inst) :
        /\ Obs(l).valid /\ Obs(l).pass >= 1
        /\ l = inst.lanes - 1 /\ inst.lanes > 1
        /\ Obs(l).curr_offset % inst.lane_length = 1
        /\ Obs(l).prev_offset = Obs(l).curr_offset - 1

\* seg belongs to a (pass, slice) before the one the loops are at
EarlierThanLoops(seg) ==
    seg[1] < sched.r \/ (seg[1] = sched.r /\ seg[2] < sched.s)

\* C14: fill_memory_blocks fills the segment of every (pass, slice, lane)
\* exactly once, the pass outermost and the slice inside it: while the loops
\* are at (pass, slice) every segment of an earlier pair has been completed
\* and no segment of a later pair has started, on the sequential and on the
\* parallel path, and when the fill has ended every segment has been filled
\* once.
C14_EachSegmentOnce ==
    /\ pc = "fill" =>
          \A seg \in Segments(inst) :
              /\ hist.started[seg] <= 1
              /\ hist.finished[seg] <= hist.started[seg]
              /\ EarlierThanLoops(seg) => hist.finished[seg] = 1
              /\ (~EarlierThanLoops(seg) /\ <<seg[1], seg[2]>> # <<sched.r, sched.s>>) =>
                    hist.started[seg] = 0
    /\ pc \in {"finalize", "done"} =>
          \A seg \in Segments(inst) :
              hist.started[seg] = 1 /\ hist.finished[seg] = 1

\* the single-threaded loops have filled the segments of two lanes in two passes
C14_Witness ==
    /\ pc = "finalize"
    /\ ~ParPath /\ inst.lanes = 2 /\ inst.passes = 2
    /\ \A seg \in Segments(inst) : hist.started[seg] = 1 /\ hist.finished[seg] = 1

\* the XOR of the blocks of mem at the indices of S
RECURSIVE XorBlocks(_, _)
XorBlocks(mem, S) ==
    IF S = {} THEN ZeroBlock
    ELSE LET i == CHOOSE i \in S : TRUE
         IN  BlockXor(mem[i], XorBlocks(mem, S \ {i}))

\* C15: finalize hashes the XOR of the last block of every lane, each lane
\* contributing once, and leaves the memory blocks as they were.
C15_Finalize ==
    [][(pc = "finalize" /\ pc' = "done") =>
          /\ memory' = memory
          /\ hist'.finalized =
                {l * inst.lane_length + inst.lane_length - 1 : l \in Lanes(inst)}
          /\ out'.result = "ok" =>
                out'.tag.msg = <<XorBlocks(memory, hist'.finalized)>>]_vars

\* finalize has hashed the last blocks of two lanes that differ
C15_Witness ==
    /\ pc = "done" /\ out.result = "ok"
    /\ inst.lanes = 2
    /\ Cardinality(hist.finalized) = 2
    /\ memory[inst.lane_length - 1] # memory[2 * inst.lane_length - 1]
    /\ out.tag.msg = <<BlockXor(memory[inst.lane_length - 1],
                                memory[2 * inst.lane_length - 1])>>

\* C16: with a memory of N = lanes * 4 * segment_length blocks and
\* segment_length >= 2, every index passed to get_block or get_block_mut by
\* the seeding, by a step of fill_segment (curr_offset, the prev_offset read,
\* lane_length * ref_lane + ref_index) and by finalize is in [0, N); the value
\* prev_offset holds between a lane wrap and the reset is not used as one.
C16_IndicesInMemory ==
    LET N == inst.lanes * SYNC_POINTS * inst.segment_length
        InN(idx) == 0 <= idx /\ idx < N
    IN  /\ pc # "panicked"
        /\ inst.segment_length >= 2
        /\ DOMAIN memory = 0 .. N - 1
        /\ \A idx \in hist.seeded \cup hist.finalized : InN(idx)
        /\ \A l \in Lanes(inst) :
              Obs(l).valid =>
                  /\ ~Obs(l).panicked
                  /\ InN(Obs(l).curr_offset)
                  /\ InN(Obs(l).prev_offset)
                  /\ InN(Obs(l).ref_offset)

\* after the wrap in the last lane the local prev_offset is N, and the step
\* that follows has read block N - lane_length
C16_Witness ==
    \E l \in Lanes(inst) :
        /\ workers[l].status = "running"
        /\ workers[l].prev_offset = inst.lanes * SYNC_POINTS * inst.segment_length
        /\ Obs(l).valid
        /\ Obs(l).prev_offset = inst.lanes * SYNC_POINTS * inst.segment_length - 1

\* C17: at every call of index_alpha that fill_segment makes the reference
\* area size W is at least 1, no u32 operation of index_alpha overflows, and
\* the relative position is in 0 .. W - 1.
C17_AreaAtLeastOne ==
    \A l \in Lanes(inst) :
        Obs(l).valid =>
            /\ inst.segment_length >= 2
            /\ (Obs(l).pass = 0 /\ Obs(l).slice = 0) => Obs(l).index >= 2
            /\ Obs(l).alpha.reference_area_size >= 1
            /\ ~Obs(l).alpha.overflows
            /\ ~Less(U32(Obs(l).alpha.reference_area_size - 1),
                     Obs(l).alpha.relative_position)

\* the smallest area: index 2 of pass 0, slice 0, where W = 1 and the
\* relative position is 0
C17_Witness ==
    \E l \in Lanes(inst) :
        /\ Obs(l).valid
        /\ Obs(l).pass = 0 /\ Obs(l).slice = 0 /\ Obs(l).index = 2
        /\ Obs(l).alpha.reference_area_size = 1
        /\ Obs(l).alpha.relative_position = U32(0)

\* C18: in every step of fill_segment the reference block is not the block
\* being written, and where the reference lane is the worker's own lane it is
\* not the previous block either.
C18_ReferenceApart ==
    \A l \in Lanes(inst) :
        Obs(l).valid =>
            /\ Obs(l).ref_offset # Obs(l).curr_offset
            /\ Obs(l).ref_lane = l => Obs(l).ref_offset # Obs(l).prev_offset

\* a step has referred to the last block of its area in its own lane: the
\* block two before the current one
C18_Witness ==
    \E l \in Lanes(inst) :
        /\ Obs(l).valid /\ Obs(l).ref_lane = l
        /\ Obs(l).index >= 3
        /\ Obs(l).ref_offset = Obs(l).curr_offset - 2

\* the address block next_addresses makes for the segment of the step o of
\* lane l when the counter has reached counter
AddressBlock(l, o, counter) ==
    next_addresses(ZeroBlock,
                   <<o.pass, l, o.slice, inst.memory_len, inst.passes,
                     AlgId(inst.alg), counter - 1>>,
                   ZeroBlock).address_block

\* C19: in a data-independent segment the pseudo-random value of index i is
\* word i mod 128 of the address block made with the counter
\* input_block[6] = i div 128 + 1; no word is consumed before next_addresses
\* has run, and every segment starts with the counter at 0.
C19_AddressCounter ==
    \A l \in Lanes(inst) :
        /\ Independent(Obs(l)) =>
              /\ Obs(l).counter = Obs(l).index \div ADDRESSES_IN_BLOCK + 1
              /\ Obs(l).address_block = AddressBlock(l, Obs(l), Obs(l).counter)
              /\ Obs(l).pseudo_rand =
                    BlockWord(Obs(l).address_block, Obs(l).index % ADDRESSES_IN_BLOCK)
        /\ (workers[l].status = "running" /\ workers[l].i = starting_index(workers[l])) =>
              workers[l].input_block[7] =
                  IF workers[l].dia /\ workers[l].pass = 0 /\ workers[l].slice = 0
                  THEN 1 ELSE 0

\* a data-independent segment after the first has taken word 1 of its second
\* address block at index 129
C19_Witness ==
    \E l \in Lanes(inst) :
        /\ Independent(Obs(l))
        /\ Obs(l).slice >= 1
        /\ Obs(l).index = ADDRESSES_IN_BLOCK + 1
        /\ Obs(l).counter = 2
        /\ Obs(l).address_block # AddressBlock(l, Obs(l), 1)

\* C20: when hash returns OutputTooLong no byte of the out buffer has been
\* written, and the error comes from finalize: the first blocks have been
\* seeded and every segment has been filled; before finalize hash has no
\* result.
C20_ErrorInFinalize ==
    /\ pc \in {"new", "fill", "finalize"} => out.result = "pending"
    /\ out.result = "OutputTooLong" =>
          /\ pc = "done"
          /\ ~out.written /\ out.tag = <<>>
          /\ hist.seeded = {l * inst.lane_length + i : l \in Lanes(inst), i \in 0 .. 1}
          /\ \A seg \in Segments(inst) : hist.finished[seg] = 1
          /\ hist.finalized # {}

\* a hash into a buffer of 3 bytes has failed after the fill
C20_Witness ==
    /\ pc = "done"
    /\ out.len = U64(3)
    /\ out.result = "OutputTooLong"
    /\ ~out.written
    /\ \A seg \in Segments(inst) : hist.finished[seg] = 1


====
